---- MODULE Spec2Model ----
(***************************************************************************)
(* Registration and payment-webhook handlers over an external document     *)
(* store (Notion).  Each request is one short-lived execution; the only    *)
(* shared state is the store, and every store call is one atomic round     *)
(* trip that may fail.                                                     *)
(*                                                                         *)
(* Strings the handlers trim or match are sequences of one-character       *)
(* strings.  An optional field (one that may be absent from the request    *)
(* or from a store record) is a sequence of length 0 (absent) or 1.        *)
(***************************************************************************)
EXTENDS Integers, Sequences, FiniteSets, TLC

VARIABLES store, reg, wh, faults

vars == <<store, reg, wh, faults>>

-----------------------------------------------------------------------------
(* Bounds of the model *)

\* requests (registrations and webhook deliveries together) per behaviour of Spec
MaxRequests == 2
\* store calls that fail per behaviour of Spec
MaxFaults == 1
\* store calls that fail per behaviour of SpecSolo
SoloFaults == 3

\* the slots of the executions of each endpoint
RegIds == 1..MaxRequests
WhIds == 1..MaxRequests

-----------------------------------------------------------------------------
(* Strings *)

Absent == <<>>
Some(v) == <<v>>

IsWs(c) == c \in {" ", "\t"}
IsDigit(c) == c \in {"0", "1", "2", "3", "4", "5", "6", "7", "8", "9"}

RECURSIVE TrimLeft(_)
TrimLeft(s) == IF s # <<>> /\ IsWs(Head(s)) THEN TrimLeft(Tail(s)) ELSE s

RECURSIVE TrimRight(_)
TrimRight(s) ==
  IF s # <<>> /\ IsWs(s[Len(s)]) THEN TrimRight(SubSeq(s, 1, Len(s) - 1)) ELSE s

\* String.prototype.trim
Trim(s) == TrimRight(TrimLeft(s))

\* (field || dflt): an absent field and the empty string are both falsy
OrDefault(opt, dflt) == IF opt = Absent \/ opt[1] = <<>> THEN dflt ELSE opt[1]

\* [^\s@]+ over s[a..b]
NoWsAt(s, a, b) == a <= b /\ \A k \in a..b : ~IsWs(s[k]) /\ s[k] # "@"

\* /^[^\s@]+@[^\s@]+\.[^\s@]+$/.test((v || "").trim())
validEmail(v) ==
  LET s == Trim(v)
  IN \E i, j \in 1..Len(s) :
       /\ i < j
       /\ s[i] = "@"
       /\ s[j] = "."
       /\ NoWsAt(s, 1, i - 1)
       /\ NoWsAt(s, i + 1, j - 1)
       /\ NoWsAt(s, j + 1, Len(s))

\* /^\d{4}-\d{2}-\d{2}$/.test(start_date)
validDate(s) ==
  /\ Len(s) = 10
  /\ \A k \in {1, 2, 3, 4, 6, 7, 9, 10} : IsDigit(s[k])
  /\ s[5] = "-"
  /\ s[8] = "-"

Unknown == <<"u", "n", "k", "n", "o", "w", "n">>


-----------------------------------------------------------------------------
(* Values the requests are drawn from *)

Ana == <<"A", "n", "a">>
Blank == <<" ">>
E1 == <<"a", "@", "x", ".", "c">>
E1sp == <<" ", "a", "@", "x", ".", "c", " ">>
E2 == <<"b", "@", "x", ".", "c">>
BadEmail == <<"a", ".", "c">>
D1 == <<"2", "0", "2", "4", "-", "0", "3", "-", "0", "1">>
D2 == <<"2", "0", "2", "4", "-", "0", "4", "-", "0", "1">>
BadDate == <<"2", "0", "2", "4", "-", "3", "-", "1">>
Spring == <<"s", "p">>
Fall == <<"f", "a">>
G1 == <<"g", "1">>
G2 == <<" ", "g", "2">>

\* the fields a request may carry, each optional
Fields(n, e, d, c, g) ==
  [name |-> n, email |-> e, start_date |-> d, cohort |-> c, goal |-> g,
   check_avail |-> Absent, checkAvail |-> Absent,
   check_date |-> Absent, checkDate |-> Absent]

NoFields == Fields(Absent, Absent, Absent, Absent, Absent)

\* args of a GET: the query parameters live directly on args
Get(f) == [method |-> "get", body |-> "none", json |-> NoFields, query |-> f]
\* args of a POST whose __ow_body decodes and parses to f
Post(f) == [method |-> "post", body |-> "json", json |-> f, query |-> NoFields]

\* an availability check for cohort c, on date d when d is present
AvailFields(c, d) ==
  [NoFields EXCEPT !.check_avail = Some(c), !.check_date = d]

ValidFields ==
  { Fields(Some(Ana), Some(E1), Some(D1), Some(Spring), Some(G1)),
    Fields(Some(Ana), Some(E1sp), Some(D1), Some(Spring), Some(G2)),
    Fields(Some(Ana), Some(E2), Some(D1), Some(Spring), Some(G1)),
    Fields(Some(Ana), Some(E1), Some(D2), Some(Spring), Absent) }

InvalidFields ==
  { Fields(Some(Blank), Some(E1), Some(D1), Some(Spring), Some(G1)),
    Fields(Some(Ana), Some(BadEmail), Some(D1), Some(Spring), Some(G1)),
    Fields(Some(Ana), Some(E1), Some(BadDate), Some(Spring), Some(G1)),
    Fields(Absent, Some(E2), Absent, Some(Spring), Absent) }

\* fields for the validator: every combination of a name that is missing,
\* blank or given, an email that is missing, without @, without a dot after
\* the @, with a space inside or well-formed, and a date that is missing,
\* short, with slashes or well-formed
NoDot == <<"a", "@", "b">>
InnerSpace == <<"a", " ", "@", "x", ".", "c">>
Slashes == <<"2", "0", "2", "4", "/", "0", "3", "/", "0", "1">>

ValidatorFields ==
  { Fields(n, e, d, Some(Spring), Some(G1)) :
      n \in {Absent, Some(Blank), Some(Ana)},
      e \in {Absent, Some(BadEmail), Some(NoDot), Some(InnerSpace), Some(E2)},
      d \in {Absent, Some(BadDate), Some(Slashes), Some(D1)} }

\* the requests of Spec, whose executions interleave
RegArgs ==
  { Get(f) : f \in ValidFields } \cup { Get(AvailFields(Spring, Some(D1))) }

\* the requests of SpecSolo, each run alone
SoloRegArgs ==
  RegArgs
    \cup { Get(f) : f \in InvalidFields \cup ValidatorFields }
    \cup { Get(AvailFields(c, d)) :
             c \in {Spring, Fall}, d \in {Absent, Some(<<>>), Some(D1), Some(D2)} }
    \cup { Post([NoFields EXCEPT !.checkAvail = Some(Spring), !.checkDate = Some(D1)]),
           Get([Fields(Some(Ana), Some(E1), Some(D1), Some(Spring), Some(G2))
                  EXCEPT !.check_avail = Some(Spring)]),
           Post(Fields(Some(Ana), Some(E2), Some(D1), Absent, Some(G1))),
           [method |-> "post", body |-> "bad", json |-> NoFields, query |-> NoFields],
           [method |-> "options", body |-> "none", json |-> NoFields, query |-> NoFields] }

-----------------------------------------------------------------------------
(* Request Normalizer *)

\* parseBody: a POST with a body yields the parsed body, {} when it does not
\* decode or parse; anything else yields args itself
parseBody(args) ==
  IF args.method = "post" /\ args.body # "none"
  THEN IF args.body = "json" THEN args.json ELSE NoFields
  ELSE args.query

Name(args) == Trim(OrDefault(parseBody(args).name, <<>>))
Email(args) == Trim(OrDefault(parseBody(args).email, <<>>))
StartDate(args) == Trim(OrDefault(parseBody(args).start_date, <<>>))
Cohort(args) == Trim(OrDefault(parseBody(args).cohort, Unknown))
Goal(args) == Trim(OrDefault(parseBody(args).goal, Unknown))

-----------------------------------------------------------------------------
(* Validator *)

\* a validator that stops at the first rule that is violated
ValidateFirstOnly(args) ==
  IF Name(args) = <<>> THEN <<"name is required">>
  ELSE IF ~validEmail(Email(args)) THEN <<"valid email is required">>
  ELSE IF ~validDate(StartDate(args)) THEN <<"start_date must be ISO yyyy-mm-dd">>
  ELSE <<>>

Validate(args) ==
  (IF Name(args) = <<>> THEN <<"name is required">> ELSE <<>>)
    \o (IF ~validEmail(Email(args)) THEN <<"valid email is required">> ELSE <<>>)
    \o (IF ~validDate(StartDate(args))
        THEN <<"start_date must be ISO yyyy-mm-dd">> ELSE <<>>)


-----------------------------------------------------------------------------
(* The external store: a sequence of pages; a page's id is its index *)

\* the cap on paid registrations of one cohort
Capacity == 10

StripePrefix == "https://dashboard.stripe.com/payments/"

Page(name, email, start_date, cohort, expectation) ==
  [name |-> name, email |-> email, start_date |-> start_date, cohort |-> cohort,
   expectation |-> expectation, status |-> "registered",
   stripe_session_id |-> Absent, stripe_link |-> Absent,
   amount_paid |-> Absent, payment_date |-> Absent]

DigitChars == <<"0", "1", "2", "3", "4", "5", "6", "7", "8", "9">>

\* the k-th of the registrations of Spring/D1 that were paid before the
\* behaviour starts, each by another student
PaidBefore(k) ==
  [Page(Ana, <<"f", DigitChars[k], "@", "x", ".", "c">>, D1, Spring, Unknown)
     EXCEPT !.status = "paid",
            !.stripe_session_id = Some("cs_0"),
            !.stripe_link = Some(<<StripePrefix, "cs_0">>),
            !.amount_paid = Some(<<49, 0>>),
            !.payment_date = Some(<<1970, 1, 1>>)]

\* n registrations of Spring/D1 paid before the behaviour starts
Prefill(n) == [k \in 1..n |-> PaidBefore(k)]

\* the stores a behaviour of Spec starts from: Spring/D1 one short of the cap
\* or at the cap, without or with two registrations of E1 that are not paid yet
InitStores ==
  { Prefill(n) \o more :
      n \in {Capacity - 1, Capacity},
      more \in { <<>>,
                 <<Page(Ana, E1, D1, Spring, G1), Page(Ana, E1, D2, Spring, G1)>> } }

\* a registration of another student that was paid before the behaviour starts
PaidOther(date, cohort) ==
  [Page(Ana, <<"p", "@", "x", ".", "c">>, date, cohort, Unknown)
     EXCEPT !.status = "paid"]

\* the stores a behaviour of SpecSolo starts from: also with no, two or three
\* paid registrations of Spring/D1, with one registration of E1 only, and with
\* paid registrations of another date and of another cohort
SoloStores ==
  { Prefill(n) \o more :
      n \in {0, 2, 3, Capacity - 1, Capacity},
      more \in { <<>>,
                 <<Page(Ana, E1, D1, Spring, G1)>>,
                 <<Page(Ana, E1, D1, Spring, G1), Page(Ana, E1, D2, Spring, G1)>>,
                 <<PaidOther(D1, Spring), PaidOther(D2, Spring), PaidOther(D1, Fall)>> } }

Max(a, b) == IF a >= b THEN a ELSE b

\* a gate query that never filters by date
PaidPagesAnyDate(st, cohort, startDate) ==
  { p \in DOMAIN st : st[p].cohort = cohort /\ st[p].status = "paid" }

\* the pages the gate's query returns; a falsy startDate drops the date filter
PaidPages(st, cohort, startDate) ==
  { p \in DOMAIN st :
      /\ st[p].cohort = cohort
      /\ st[p].status = "paid"
      /\ (startDate # <<>> => st[p].start_date = startDate) }

\* spots left without the floor at 0
CheckAvailabilityNoFloor(st, cohort, startDate) ==
  LET paidCount == Cardinality(PaidPages(st, cohort, startDate))
  IN [isAvailable |-> paidCount < Capacity,
      spotsLeft |-> Capacity - paidCount,
      paidCount |-> paidCount]

\* a gate that admits one registration too many
CheckAvailabilityOffByOne(st, cohort, startDate) ==
  LET paidCount == Cardinality(PaidPages(st, cohort, startDate))
  IN [isAvailable |-> paidCount <= Capacity,
      spotsLeft |-> Max(0, Capacity - paidCount),
      paidCount |-> paidCount]

\* the result of a successful availability query
checkCohortAvailability(st, cohort, startDate) ==
  LET paidCount == Cardinality(PaidPages(st, cohort, startDate))
  IN [isAvailable |-> paidCount < Capacity,
      spotsLeft |-> Max(0, Capacity - paidCount),
      paidCount |-> paidCount]

\* the pages the upsert lookup's query returns
findExistingRecord(st, email, cohort, startDate) ==
  { p \in DOMAIN st :
      /\ st[p].email = email
      /\ st[p].cohort = cohort
      /\ st[p].start_date = startDate }

\* a PATCH that leaves the expectation as it was
UpdateDropsGoal(st, pageId, goal) == st

\* a PATCH that sends the status of a new registration along with the goal
UpdateResetsStatus(st, pageId, goal) ==
  [st EXCEPT ![pageId].expectation = goal, ![pageId].status = "registered"]

\* a PATCH that writes the payment fields of a new registration along with
\* the goal
UpdateClearsPayment(st, pageId, goal) ==
  [st EXCEPT ![pageId].expectation = goal,
             ![pageId].stripe_session_id = Absent,
             ![pageId].stripe_link = Absent,
             ![pageId].amount_paid = Absent,
             ![pageId].payment_date = Absent]

\* the store after a successful PATCH of the expectation of page pageId
updateExistingRecord(st, pageId, goal) ==
  [st EXCEPT ![pageId].expectation = goal]

\* a store that refuses a second page of an (email, cohort, start_date) triple
CreatePageUnique(st, args) ==
  IF findExistingRecord(st, Email(args), Cohort(args), StartDate(args)) # {}
  THEN st
  ELSE Append(st, Page(Name(args), Email(args), StartDate(args), Cohort(args), Goal(args)))

\* a create that leaves the goal out
CreatePageDropsGoal(st, args) ==
  Append(st, Page(Name(args), Email(args), StartDate(args), Cohort(args), Unknown))

\* the store after a successful create from the request's fields
CreatePage(st, args) ==
  Append(st, Page(Name(args), Email(args), StartDate(args), Cohort(args), Goal(args)))

-----------------------------------------------------------------------------
(* Responses *)

NoAvail == [isAvailable |-> FALSE, spotsLeft |-> 0 - 1, paidCount |-> 0 - 1]

NoResp ==
  [statusCode |-> 0, ok |-> FALSE, created |-> FALSE, updated |-> FALSE,
   pageId |-> 0, errors |-> <<>>, error |-> "", avail |-> NoAvail]

Preflight == [NoResp EXCEPT !.statusCode = 204]
AvailOk(a) == [NoResp EXCEPT !.statusCode = 200, !.ok = TRUE, !.avail = a]
AvailFailed ==
  [NoResp EXCEPT !.statusCode = 500, !.error = "Failed to check availability"]
CohortFull ==
  [NoResp EXCEPT !.statusCode = 409, !.error = "Cohort is full",
                 !.avail = [NoAvail EXCEPT !.spotsLeft = 0]]
Invalid(errors) == [NoResp EXCEPT !.statusCode = 400, !.errors = errors]
Updated(pageId) ==
  [NoResp EXCEPT !.statusCode = 200, !.ok = TRUE, !.pageId = pageId, !.updated = TRUE]
Created(pageId) ==
  [NoResp EXCEPT !.statusCode = 200, !.ok = TRUE, !.pageId = pageId, !.created = TRUE]
CreateRejected == [NoResp EXCEPT !.statusCode = 502, !.error = "notion"]
CreateThrew == [NoResp EXCEPT !.statusCode = 500, !.error = "fetch"]


-----------------------------------------------------------------------------
(* Registration endpoint: exports.main, one execution per slot of reg *)

\* the outcomes of a store call the handlers tell apart: it succeeded or it
\* failed; the create is answered with an error status or fetch itself throws
Outcomes == {"ok", "fail"}
CreateOutcomes == {"ok", "notok", "throw"}

\* a call may fail while the behaviour has faults left
Faulty(outcome) ==
  /\ outcome # "ok" => faults > 0
  /\ faults' = IF outcome = "ok" THEN faults ELSE faults - 1

RegIdle ==
  [pc |-> "idle", args |-> Get(NoFields), gate |-> "none", gateCount |-> 0 - 1,
   existing |-> 0, calls |-> <<>>, len0 |-> 0, overlap |-> FALSE,
   resp |-> NoResp]

Call(op, outcome) == [op |-> op, outcome |-> outcome]

\* an execution that has started and has not ended
Running(r) == r.pc \notin {"idle", "done", "crashed"}
InFlight ==
  { <<"reg", j>> : j \in { k \in RegIds : Running(reg[k]) } }
    \cup { <<"wh", w>> : w \in { v \in WhIds : Running(wh[v]) } }

\* the number of requests that have arrived
Started ==
  Cardinality({ j \in RegIds : reg[j].pc # "idle" })
    + Cardinality({ w \in WhIds : wh[w].pc # "idle" })

checkAvail(args) ==
  OrDefault(parseBody(args).check_avail, OrDefault(parseBody(args).checkAvail, <<>>))
checkDate(args) ==
  OrDefault(parseBody(args).check_date, OrDefault(parseBody(args).checkDate, <<>>))

\* the request arrives: preflight, parseBody, the dispatch on check-avail
RegStart(i, args) ==
  /\ reg[i].pc = "idle"
  /\ i > 1 => reg[i - 1].pc # "idle"
  /\ Started < MaxRequests
  /\ reg' = [j \in RegIds |->
       IF j = i
       THEN [reg[i] EXCEPT
               !.args = args,
               !.len0 = Len(store),
               !.overlap = InFlight # {},
               !.pc = IF args.method = "options" THEN "done"
                      ELSE IF checkAvail(args) # <<>> THEN "avail"
                      ELSE "gate",
               !.resp = IF args.method = "options" THEN Preflight ELSE NoResp]
       ELSE [reg[j] EXCEPT !.overlap = @ \/ Running(reg[j])]]
  /\ wh' = [w \in WhIds |-> [wh[w] EXCEPT !.overlap = @ \/ Running(wh[w])]]
  /\ UNCHANGED <<store, faults>>

\* an availability check that goes on to register once it has answered
RegAvailFallsThrough(i, outcome) ==
  /\ reg[i].pc = "avail"
  /\ Faulty(outcome)
  /\ reg' = [reg EXCEPT ![i] =
       [@ EXCEPT !.calls = Append(@, Call("gate", outcome)),
                 !.pc = IF outcome = "ok" THEN "lookup" ELSE "done",
                 !.resp = IF outcome = "ok"
                          THEN AvailOk(checkCohortAvailability(
                                 store, checkAvail(reg[i].args), checkDate(reg[i].args)))
                          ELSE AvailFailed]]
  /\ UNCHANGED <<store, wh>>

\* the availability-check endpoint
RegAvail(i, outcome) ==
  /\ reg[i].pc = "avail"
  /\ Faulty(outcome)
  /\ reg' = [reg EXCEPT ![i] =
       [@ EXCEPT !.calls = Append(@, Call("gate", outcome)),
                 !.pc = "done",
                 !.resp = IF outcome = "ok"
                          THEN AvailOk(checkCohortAvailability(
                                 store, checkAvail(reg[i].args), checkDate(reg[i].args)))
                          ELSE AvailFailed]]
  /\ UNCHANGED <<store, wh>>

\* a gate whose failure ends the request
AfterGateFailClosed(outcome, availability, errors) ==
  IF outcome # "ok" THEN [pc |-> "done", resp |-> AvailFailed]
  ELSE IF ~availability.isAvailable THEN [pc |-> "done", resp |-> CohortFull]
  ELSE IF errors # <<>> THEN [pc |-> "done", resp |-> Invalid(errors)]
  ELSE [pc |-> "lookup", resp |-> NoResp]

\* what follows the gate's query: 409 when it succeeded and found no room;
\* otherwise (also when it failed) the validation, and 400 on its errors
AfterGate(outcome, availability, errors) ==
  IF outcome = "ok" /\ ~availability.isAvailable
  THEN [pc |-> "done", resp |-> CohortFull]
  ELSE IF errors # <<>> THEN [pc |-> "done", resp |-> Invalid(errors)]
  ELSE [pc |-> "lookup", resp |-> NoResp]

\* the availability gate of the write path, then the validation
RegGate(i, outcome) ==
  LET args == reg[i].args
      availability == checkCohortAvailability(store, Cohort(args), StartDate(args))
      next == AfterGate(outcome, availability, Validate(args))
  IN
  /\ reg[i].pc = "gate"
  /\ Faulty(outcome)
  /\ reg' = [reg EXCEPT ![i] =
       [@ EXCEPT !.calls = Append(@, Call("gate", outcome)),
                 !.gate = IF outcome = "ok" THEN "ok" ELSE "failed",
                 !.gateCount = IF outcome = "ok" THEN availability.paidCount ELSE @,
                 !.pc = next.pc,
                 !.resp = next.resp]]
  /\ UNCHANGED <<store, wh>>

\* the lookup of an existing record for the triple; a failure is swallowed
RegLookup(i, outcome) ==
  LET args == reg[i].args
      results == findExistingRecord(store, Email(args), Cohort(args), StartDate(args))
  IN
  /\ reg[i].pc = "lookup"
  /\ Faulty(outcome)
  /\ \/ /\ outcome = "ok"
        /\ results # {}
        /\ \E first \in results :
             reg' = [reg EXCEPT ![i] =
               [@ EXCEPT !.calls = Append(@, Call("lookup", outcome)),
                         !.existing = first,
                         !.pc = "patch"]]
     \/ /\ outcome # "ok" \/ results = {}
        /\ reg' = [reg EXCEPT ![i] =
             [@ EXCEPT !.calls = Append(@, Call("lookup", outcome)),
                       !.pc = "create"]]
  /\ UNCHANGED <<store, wh>>

\* the PATCH of the existing record; its failure is caught by the same handler
\* as the lookup's and the request goes on to create
RegPatch(i, outcome) ==
  /\ reg[i].pc = "patch"
  /\ Faulty(outcome)
  /\ IF outcome = "ok"
     THEN /\ store' = updateExistingRecord(store, reg[i].existing, Goal(reg[i].args))
          /\ reg' = [reg EXCEPT ![i] =
               [@ EXCEPT !.calls = Append(@, Call("patch", outcome)),
                         !.pc = "done",
                         !.resp = Updated(reg[i].existing)]]
     ELSE /\ store' = store
          /\ reg' = [reg EXCEPT ![i] =
               [@ EXCEPT !.calls = Append(@, Call("patch", outcome)),
                         !.pc = "create"]]
  /\ UNCHANGED wh

\* the create of a new page
RegCreate(i, outcome) ==
  /\ reg[i].pc = "create"
  /\ Faulty(outcome)
  /\ store' = IF outcome = "ok" THEN CreatePage(store, reg[i].args) ELSE store
  /\ reg' = [reg EXCEPT ![i] =
       [@ EXCEPT !.calls = Append(@, Call("create", outcome)),
                 !.pc = "done",
                 !.resp = CASE outcome = "ok" -> Created(Len(store) + 1)
                            [] outcome = "notok" -> CreateRejected
                            [] OTHER -> CreateThrew]]
  /\ UNCHANGED wh


-----------------------------------------------------------------------------
(* Payment webhook: events *)

Session(status, detailsEmail, customerEmail, id, total, subtotal, created) ==
  [payment_status |-> status,
   customer_details |-> detailsEmail,
   customer_email |-> customerEmail,
   id |-> id, amount_total |-> total, amount_subtotal |-> subtotal,
   created |-> created]

\* an event with data.object = session; data is Absent when the event has no
\* data, Some(Absent) when data has no object
Event(type, data) == [type |-> type, data |-> data]

Completed == "checkout.session.completed"

\* customer_details: Absent, or Some of the optional email inside it
PaidE1 ==
  Event(Completed, Some(Some(
    Session("paid", Some(Some(E1)), Absent, Some("cs_1"), Some(4900), Absent,
            Some(1709251200)))))
PaidE2 ==
  Event(Completed, Some(Some(
    Session("paid", Absent, Some(E2), Some("cs_2"), Absent, Some(2550),
            Some(1711929599)))))

WhPost(handler, e) == [handler |-> handler, method |-> "post", body |-> "json", event |-> e]

\* the two deployed webhook handlers: the one that records the payment
\* ("stripe") and the minimal one that only marks the page paid ("minimal")
Handlers == {"stripe", "minimal"}

\* the deliveries of Spec
WhArgs ==
  { WhPost("stripe", Some(PaidE1)), WhPost("stripe", Some(PaidE2)),
    WhPost("minimal", Some(PaidE1)) }

\* events the handlers do not process: another type (with or without data), a
\* completed session that is not paid (with or without the other fields)
OtherType ==
  Event("payment_intent.succeeded", Some(Some(
    Session("paid", Some(Some(E1)), Absent, Some("cs_1"), Some(4900), Absent,
            Some(1709251200)))))
OtherTypeNoData == Event("customer.created", Absent)
Unpaid ==
  Event(Completed, Some(Some(
    Session("unpaid", Some(Some(E1)), Absent, Some("cs_3"), Some(4900), Absent,
            Some(1709251200)))))
UnpaidBare ==
  Event(Completed, Some(Some(
    Session("no_payment_required", Absent, Absent, Absent, Absent, Absent, Absent))))

\* paid sessions without an email: customer_details without email and no
\* customer_email; no customer_details and an empty customer_email
PaidNoEmail ==
  Event(Completed, Some(Some(
    Session("paid", Some(Absent), Absent, Some("cs_4"), Some(4900), Absent,
            Some(1709251200)))))
PaidEmptyEmail ==
  Event(Completed, Some(Some(
    Session("paid", Absent, Some(<<>>), Some("cs_5"), Some(4900), Absent, Absent))))

\* completed events without data, without data.object, and a paid session
\* without created
NoData == Event(Completed, Absent)
NoObject == Event(Completed, Some(Absent))
PaidNoCreated ==
  Event(Completed, Some(Some(
    Session("paid", Some(Some(E1)), Absent, Some("cs_6"), Some(4900), Absent, Absent))))

IgnoredEvents == {OtherType, OtherTypeNoData, Unpaid, UnpaidBare}
NoEmailEvents == {PaidNoEmail, PaidEmptyEmail}
BrokenEvents == {NoData, NoObject, PaidNoCreated}

\* requests that are no POST of a parseable event: other methods, a body that
\* does not decode or parse, a body that parses to null, no body at all
BadRequests ==
  { [handler |-> h, method |-> m, body |-> b, event |-> e] :
      h \in Handlers,
      m \in {"get", "put"},
      b \in {"json"},
      e \in {Some(PaidE1)} }
    \cup
  { [handler |-> h, method |-> "post", body |-> b, event |-> Absent] :
      h \in Handlers, b \in {"bad", "json", "none"} }
    \cup
  { [handler |-> h, method |-> "post", body |-> "bad", event |-> Some(PaidE1)] :
      h \in Handlers }
    \cup
  { [handler |-> h, method |-> "post", body |-> "none", event |-> Some(OtherTypeNoData)] :
      h \in Handlers }

\* the deliveries of SpecSolo
SoloWhArgs ==
  WhArgs
    \cup { WhPost("minimal", Some(PaidE2)) }
    \cup { WhPost(h, Some(e)) :
             h \in Handlers, e \in IgnoredEvents \cup NoEmailEvents \cup BrokenEvents }
    \cup BadRequests
    \cup { [handler |-> h, method |-> "options", body |-> "none", event |-> Absent] :
             h \in Handlers }
    \cup { [handler |-> "stripe", method |-> "post", body |-> "none",
            event |-> Some(PaidE1)] }

-----------------------------------------------------------------------------
(* Payment webhook: pure parts *)

\* args itself carries type and data
CarriesEvent(args) ==
  args.event # Absent /\ args.event[1].type # "" /\ args.event[1].data # Absent

\* a parse that takes what it can read of a body that does not parse
ParseEventLenient(args) ==
  IF args.body # "none" THEN args.event
  ELSE IF CarriesEvent(args) THEN args.event ELSE Absent

\* parseEvent: the parsed body, null when it does not parse; without a body,
\* args itself when it carries type and data
parseEvent(args) ==
  IF args.body # "none"
  THEN IF args.body = "json" THEN args.event ELSE Absent
  ELSE IF CarriesEvent(args) THEN args.event ELSE Absent

\* event.data && event.data.object
SessionOf(event) == IF event.data = Absent THEN Absent ELSE event.data[1]

\* (session.customer_details && session.customer_details.email)
\*   || session.customer_email || null
EmailOf(session) ==
  LET viaDetails == IF session.customer_details = Absent THEN Absent
                    ELSE session.customer_details[1]
  IN IF viaDetails # Absent /\ viaDetails[1] # <<>> THEN viaDetails[1]
     ELSE OrDefault(session.customer_email, <<>>)

\* session.amount_total || session.amount_subtotal
AmountPaid(session) ==
  IF session.amount_total # Absent /\ session.amount_total[1] # 0
  THEN session.amount_total
  ELSE session.amount_subtotal

\* new Date(seconds * 1000).toISOString().split('T')[0], as <<year, month, day>>
IsoDate(seconds) ==
  LET z == (seconds \div 86400) + 719468
      era == z \div 146097
      doe == z - era * 146097
      yoe == (doe - (doe \div 1460) + (doe \div 36524) - (doe \div 146096)) \div 365
      doy == doe - (365 * yoe + (yoe \div 4) - (yoe \div 100))
      mp == (5 * doy + 2) \div 153
      d == doy - ((153 * mp + 2) \div 5) + 1
      m == IF mp < 10 THEN mp + 3 ELSE mp - 9
      y == yoe + era * 400 + (IF m <= 2 THEN 1 ELSE 0)
  IN <<y, m, d>>

StripeData(session) ==
  [sessionId |-> session.id,
   amountPaid |-> AmountPaid(session),
   paymentDate |-> IsoDate(session.created[1])]

\* a PATCH that adds the session's amount to the amount on the page
MarkPaidAddsAmount(st, pageId, stripeData) ==
  LET before == IF st[pageId].amount_paid = Absent THEN <<0, 0>>
                ELSE st[pageId].amount_paid[1]
      paid == IF stripeData.amountPaid = Absent THEN 0 ELSE stripeData.amountPaid[1]
      cents == (before[1] * 100) + before[2] + paid
  IN [st EXCEPT ![pageId] =
       [@ EXCEPT !.status = "paid",
                 !.stripe_session_id = stripeData.sessionId,
                 !.stripe_link = Some(<<StripePrefix, stripeData.sessionId[1]>>),
                 !.amount_paid = Some(<<cents \div 100, cents % 100>>),
                 !.payment_date = Some(stripeData.paymentDate)]]

\* the store after markPaidWithStripeInfo's PATCH succeeds
markPaidWithStripeInfo(st, pageId, stripeData) ==
  LET hasId == stripeData.sessionId # Absent /\ stripeData.sessionId[1] # ""
  IN [st EXCEPT ![pageId] =
       [@ EXCEPT !.status = "paid",
                 !.stripe_session_id = IF hasId THEN stripeData.sessionId ELSE @,
                 !.stripe_link =
                   IF hasId THEN Some(<<StripePrefix, stripeData.sessionId[1]>>) ELSE @,
                 !.amount_paid =
                   IF stripeData.amountPaid # Absent
                   THEN Some(<<stripeData.amountPaid[1] \div 100,
                               stripeData.amountPaid[1] % 100>>)
                   ELSE @,
                 !.payment_date = Some(stripeData.paymentDate)]]

\* the store after the minimal handler's markPaid PATCH succeeds
markPaid(st, pageId) == [st EXCEPT ![pageId].status = "paid"]

\* a query without the email filter
FindPagesAnyEmail(st, email) == DOMAIN st

\* the pages findPagesByEmail's query returns
findPagesByEmail(st, email) == { p \in DOMAIN st : st[p].email = email }


-----------------------------------------------------------------------------
(* Payment webhook: exports.main, one execution per slot of wh *)

\* a handler that processes a completed session whatever its payment_status
IsPaidAlways(session) == TRUE

\* session.payment_status === "paid"
IsPaid(session) == session.payment_status = "paid"

WhNoResp ==
  [statusCode |-> 0, ok |-> FALSE, ignored |-> FALSE, reason |-> "",
   updated |-> 0 - 1, note |-> "", error |-> ""]

bad(status, error) == [WhNoResp EXCEPT !.statusCode = status, !.error = error]
Ignored(reason) ==
  [WhNoResp EXCEPT !.statusCode = 200, !.ok = TRUE, !.ignored = TRUE, !.reason = reason]
NoMatch ==
  [WhNoResp EXCEPT !.statusCode = 200, !.ok = TRUE, !.updated = 0,
                   !.note = "no_matching_email"]
Paid(n) == [WhNoResp EXCEPT !.statusCode = 200, !.ok = TRUE, !.updated = n]

WhIdle ==
  [pc |-> "idle", args |-> [handler |-> "stripe", method |-> "get", body |-> "none",
                            event |-> Absent],
   found |-> {}, pages |-> {}, updated |-> 0, calls |-> <<>>,
   len0 |-> 0, overlap |-> FALSE, resp |-> WhNoResp]

\* what the code between the entry and the first store call decides:
\* a response, an uncaught exception, or to go on to the query
WhEntry(args) ==
  LET event == parseEvent(args)
      session == SessionOf(event[1])
      paid == session # Absent /\ IsPaid(session[1])
  IN CASE args.method = "options" -> [pc |-> "done", resp |-> [WhNoResp EXCEPT !.statusCode = 204]]
       [] args.method # "post" -> [pc |-> "done", resp |-> bad(405, "Method not allowed")]
       [] event = Absent -> [pc |-> "done", resp |-> bad(400, "Empty or invalid body")]
       [] event[1].type # Completed ->
            [pc |-> "done", resp |-> Ignored("unhandled_event_type")]
       \* session.customer_email of a missing session throws
       [] session = Absent -> [pc |-> "crashed", resp |-> WhNoResp]
       [] ~paid -> [pc |-> "done", resp |-> Ignored("not_paid")]
       [] EmailOf(session[1]) = <<>> ->
            [pc |-> "done", resp |-> bad(400, "No email in event")]
       \* toISOString of an invalid date throws
       [] args.handler = "stripe" /\ session[1].created = Absent ->
            [pc |-> "crashed", resp |-> WhNoResp]
       [] OTHER -> [pc |-> "query", resp |-> WhNoResp]

WhEmail(args) == EmailOf(SessionOf(parseEvent(args)[1])[1])
WhStripeData(args) == StripeData(SessionOf(parseEvent(args)[1])[1])

WhStart(w, args) ==
  /\ wh[w].pc = "idle"
  /\ w > 1 => wh[w - 1].pc # "idle"
  /\ Started < MaxRequests
  /\ wh' = [v \in WhIds |->
       IF v = w
       THEN [wh[w] EXCEPT
               !.args = args,
               !.len0 = Len(store),
               !.overlap = InFlight # {},
               !.pc = WhEntry(args).pc,
               !.resp = WhEntry(args).resp]
       ELSE [wh[v] EXCEPT !.overlap = @ \/ Running(wh[v])]]
  /\ reg' = [j \in RegIds |-> [reg[j] EXCEPT !.overlap = @ \/ Running(reg[j])]]
  /\ UNCHANGED <<store, faults>>

\* findPagesByEmail and the test for no match
WhQuery(w, outcome) ==
  LET pages == findPagesByEmail(store, WhEmail(wh[w].args))
  IN
  /\ wh[w].pc = "query"
  /\ Faulty(outcome)
  /\ wh' = [wh EXCEPT ![w] =
       [@ EXCEPT !.calls = Append(@, Call("query", outcome)),
                 !.found = IF outcome = "ok" THEN pages ELSE @,
                 !.pages = IF outcome = "ok" THEN pages ELSE @,
                 !.pc = IF outcome = "ok" /\ pages # {} THEN "patch" ELSE "done",
                 !.resp = IF outcome # "ok" THEN bad(502, "Notion query failed")
                          ELSE IF pages = {} THEN NoMatch
                          ELSE WhNoResp]]
  /\ UNCHANGED <<store, reg>>

\* the PATCH the handler sends for page p
MarkPaid(st, args, p) ==
  IF args.handler = "stripe"
  THEN markPaidWithStripeInfo(st, p, WhStripeData(args))
  ELSE markPaid(st, p)

\* a loop that takes back the pages it has marked when a PATCH fails
WhPatchRollsBack(w, p, outcome) ==
  /\ wh[w].pc = "patch"
  /\ Faulty(outcome)
  /\ p \in wh[w].pages
  /\ store' = IF outcome = "ok" THEN MarkPaid(store, wh[w].args, p)
              ELSE [q \in DOMAIN store |->
                      IF q \in wh[w].found
                      THEN [store[q] EXCEPT !.status = "registered"]
                      ELSE store[q]]
  /\ wh' = [wh EXCEPT ![w] =
       [@ EXCEPT !.calls = Append(@, Call("patch", outcome)),
                 !.pages = IF outcome = "ok" THEN @ \ {p} ELSE @,
                 !.updated = IF outcome = "ok" THEN @ + 1 ELSE @,
                 !.pc = IF outcome # "ok" \/ wh[w].pages = {p} THEN "done" ELSE "patch",
                 !.resp = IF outcome # "ok" THEN bad(502, "Notion update failed")
                          ELSE IF wh[w].pages = {p} THEN Paid(wh[w].updated + 1)
                          ELSE WhNoResp]]
  /\ UNCHANGED reg

\* one turn of the loop over the pages, in the order the query returned them
WhPatch(w, p, outcome) ==
  /\ wh[w].pc = "patch"
  /\ Faulty(outcome)
  /\ p \in wh[w].pages
  /\ store' = IF outcome = "ok" THEN MarkPaid(store, wh[w].args, p) ELSE store
  /\ wh' = [wh EXCEPT ![w] =
       [@ EXCEPT !.calls = Append(@, Call("patch", outcome)),
                 !.pages = IF outcome = "ok" THEN @ \ {p} ELSE @,
                 !.updated = IF outcome = "ok" THEN @ + 1 ELSE @,
                 !.pc = IF outcome # "ok" \/ wh[w].pages = {p} THEN "done" ELSE "patch",
                 !.resp = IF outcome # "ok" THEN bad(502, "Notion update failed")
                          ELSE IF wh[w].pages = {p} THEN Paid(wh[w].updated + 1)
                          ELSE WhNoResp]]
  /\ UNCHANGED reg

-----------------------------------------------------------------------------
(* The system *)

Init ==
  /\ store \in InitStores
  /\ reg = [i \in RegIds |-> RegIdle]
  /\ wh = [w \in WhIds |-> WhIdle]
  /\ faults = MaxFaults

Next ==
  \/ \E i \in RegIds, args \in RegArgs : RegStart(i, args)
  \/ \E i \in RegIds, o \in Outcomes : RegAvail(i, o)
  \/ \E i \in RegIds, o \in Outcomes : RegGate(i, o)
  \/ \E i \in RegIds, o \in Outcomes : RegLookup(i, o)
  \/ \E i \in RegIds, o \in Outcomes : RegPatch(i, o)
  \/ \E i \in RegIds, o \in CreateOutcomes : RegCreate(i, o)
  \/ \E w \in WhIds, args \in WhArgs : WhStart(w, args)
  \/ \E w \in WhIds, o \in Outcomes : WhQuery(w, o)
  \/ \E w \in WhIds, o \in Outcomes, p \in DOMAIN store : WhPatch(w, p, o)

\* MaxRequests requests, whose executions interleave; MaxFaults of their
\* store calls fail
Spec == Init /\ [][Next]_vars

NoneStarted ==
  /\ \A i \in RegIds : reg[i].pc = "idle"
  /\ \A w \in WhIds : wh[w].pc = "idle"

InitSolo ==
  /\ store \in SoloStores
  /\ reg = [i \in RegIds |-> RegIdle]
  /\ wh = [w \in WhIds |-> WhIdle]
  /\ faults = SoloFaults

NextSolo ==
  \/ \E args \in SoloRegArgs : NoneStarted /\ RegStart(1, args)
  \/ \E i \in RegIds, o \in Outcomes : RegAvail(i, o)
  \/ \E i \in RegIds, o \in Outcomes : RegGate(i, o)
  \/ \E i \in RegIds, o \in Outcomes : RegLookup(i, o)
  \/ \E i \in RegIds, o \in Outcomes : RegPatch(i, o)
  \/ \E i \in RegIds, o \in CreateOutcomes : RegCreate(i, o)
  \/ \E args \in SoloWhArgs : NoneStarted /\ WhStart(1, args)
  \/ \E w \in WhIds, o \in Outcomes : WhQuery(w, o)
  \/ \E w \in WhIds, o \in Outcomes, p \in DOMAIN store : WhPatch(w, p, o)

\* one request, of any shape, against any of the stores; every call may fail
SpecSolo == InitSolo /\ [][NextSolo]_vars

\* the same, with the execution never stopping between two of its steps: the
\* handler awaits each store call and the call returns or throws
SpecSoloFair == SpecSolo /\ WF_vars(NextSolo)


-----------------------------------------------------------------------------
(* Shared vocabulary of the properties *)

\* the execution in slot i took the write path and its input passed validation
ValidWrite(r) ==
  /\ r.args.method # "options"
  /\ checkAvail(r.args) = <<>>
  /\ Validate(r.args) = <<>>

AllOk(calls) == \A k \in DOMAIN calls : calls[k].outcome = "ok"
Ops(calls) == [k \in DOMAIN calls |-> calls[k].op]

\* the pages of the request's triple
TriplePages(st, args) ==
  findExistingRecord(st, Email(args), Cohort(args), StartDate(args))

\* the store as it was when the execution started: pages are never deleted
\* and a page's triple never changes
StoreAtStart(r) == SubSeq(store, 1, r.len0)

\* the two registrations ran one after the other and nothing else ran
TwoInSequence ==
  /\ reg[1].pc = "done" /\ reg[2].pc = "done"
  /\ ~reg[1].overlap /\ ~reg[2].overlap
  /\ \A j \in RegIds \ {1, 2} : reg[j].pc = "idle"
  /\ \A w \in WhIds : wh[w].pc = "idle"
  /\ ValidWrite(reg[1]) /\ ValidWrite(reg[2])
  /\ Email(reg[1].args) = Email(reg[2].args)
  /\ Cohort(reg[1].args) = Cohort(reg[2].args)
  /\ StartDate(reg[1].args) = StartDate(reg[2].args)
  /\ Goal(reg[1].args) # Goal(reg[2].args)
  /\ AllOk(reg[1].calls) /\ AllOk(reg[2].calls)
  /\ TriplePages(StoreAtStart(reg[1]), reg[1].args) = {}

UpsertedOnce ==
  /\ Cardinality(TriplePages(store, reg[2].args)) = 1
  /\ \A p \in TriplePages(store, reg[2].args) :
       /\ store[p].expectation = Goal(reg[2].args)
       /\ reg[1].resp.pageId = p
       /\ reg[2].resp.pageId = p
  /\ reg[1].resp.statusCode = 200 /\ reg[1].resp.created
  /\ reg[2].resp.statusCode = 200 /\ reg[2].resp.updated

\* the request's cohort and date have room: fewer than Capacity paid pages
HasRoom(st, args) ==
  Cardinality(PaidPages(st, Cohort(args), StartDate(args))) < Capacity

-----------------------------------------------------------------------------
(* C1 *)

\* C1 as stated: two registrations in sequence, same triple, different goals,
\* every call succeeding, no record of the triple before: one record, with the
\* second goal; created:true then updated:true with the same pageId
C1_AsStated == TwoInSequence => UpsertedOnce

\* C1 (amended): the same, when the cohort and date of the triple have fewer
\* than Capacity paid records; at the cap both requests are answered 409 and
\* no record is written
C1_UpsertIdempotent ==
  (TwoInSequence /\ HasRoom(StoreAtStart(reg[1]), reg[1].args)) => UpsertedOnce

C1_Witness ==
  /\ TwoInSequence
  /\ HasRoom(StoreAtStart(reg[1]), reg[1].args)
  /\ reg[2].resp.updated
  /\ store[reg[2].resp.pageId].expectation = <<"g", "2">>


-----------------------------------------------------------------------------
(* C2 *)

\* the number of paid pages of the pair of page p
PaidOfPair(st, p) == Cardinality(PaidPages(st, st[p].cohort, st[p].start_date))

\* C2 as stated: in every reachable state each (cohort, start_date) pair has
\* at most Capacity paid records
C2_AsStated == \A p \in DOMAIN store : PaidOfPair(store, p) <= Capacity

\* the registration in slot i issued a store call in this step
RegCalled(i) == reg'[i].calls # reg[i].calls

\* C2 (amended): the cap is enforced at the registration gate only.  A step of
\* a registration never changes the number of paid records of any pair (it
\* leaves status, cohort and date of every page as they are and adds no paid
\* page), and a registration whose gate query succeeded writes to the store
\* only if that query counted fewer than Capacity paid records.  (The webhook
\* marks pages paid without consulting the cap, so the count is not bounded.)
C2_CapEnforcedAtGate ==
  [][\A i \in RegIds :
       (RegCalled(i) /\ store' # store) =>
         /\ \A p \in DOMAIN store :
              /\ store'[p].status = store[p].status
              /\ store'[p].cohort = store[p].cohort
              /\ store'[p].start_date = store[p].start_date
         /\ \A p \in DOMAIN store' \ DOMAIN store : store'[p].status # "paid"
         /\ reg[i].gate = "ok" => reg[i].gateCount < Capacity]_vars

\* a registration admitted one short of the cap has created its page and the
\* pair now holds more paid pages than the cap
C2_Witness ==
  \E i \in RegIds :
    /\ reg[i].resp.created
    /\ reg[i].gate = "ok"
    /\ reg[i].gateCount = Capacity - 1
    /\ PaidOfPair(store, reg[i].resp.pageId) > Capacity

-----------------------------------------------------------------------------
(* C3 *)

\* C3: a page that is paid is paid in every later state: no step of either
\* path takes a status from paid back to registered
C3_StatusOneWay ==
  [][\A p \in DOMAIN store :
       store[p].status = "paid" =>
         (p \in DOMAIN store' /\ store'[p].status = "paid")]_vars

\* a registration has patched a page that was paid, and the page is still paid
C3_Witness ==
  \E i \in RegIds :
    /\ reg[i].pc = "done"
    /\ reg[i].resp.updated
    /\ store[reg[i].resp.pageId].status = "paid"
    /\ store[reg[i].resp.pageId].expectation = Goal(reg[i].args)
    /\ \E w \in WhIds : wh[w].pc = "done" /\ reg[i].resp.pageId \in wh[w].found


-----------------------------------------------------------------------------
(* C4 *)

\* the payment fields the claim expects on a page paid by the delivery:
\* session id, dashboard link, amount in major units, payment date
ExpectedPayment(args) ==
  IF args.event = Some(PaidE1)
  THEN [id |-> Some("cs_1"), link |-> Some(<<StripePrefix, "cs_1">>),
        amount |-> Some(<<49, 0>>), date |-> Some(<<2024, 3, 1>>)]
  ELSE [id |-> Some("cs_2"), link |-> Some(<<StripePrefix, "cs_2">>),
        amount |-> Some(<<25, 50>>), date |-> Some(<<2024, 3, 31>>)]

PaidWith(page, payment) ==
  /\ page.status = "paid"
  /\ page.stripe_session_id = payment.id
  /\ page.stripe_link = payment.link
  /\ page.amount_paid = payment.amount
  /\ page.payment_date = payment.date

\* the delivery in slot w is answered 200 with an updated count in this step
WhAnswersUpdated(w) ==
  /\ wh[w].pc # "done"
  /\ wh'[w].pc = "done"
  /\ wh'[w].resp.statusCode = 200
  /\ ~wh'[w].resp.ignored

\* C4 as stated, for a delivery that overlaps no other request: when it is
\* answered 200 with updated = n, n is the number of pages with the event's
\* email, each of them is paid with session id, link, amount / 100 and payment
\* date, and no step of the delivery modifies a page of another email
C4_AsStated ==
  [][\A w \in WhIds :
       LET e == WhEmail(wh[w].args)
       IN /\ (WhAnswersUpdated(w) /\ ~wh'[w].overlap) =>
               /\ wh'[w].resp.updated = Cardinality(findPagesByEmail(store', e))
               /\ \A p \in findPagesByEmail(store', e) :
                    PaidWith(store'[p], ExpectedPayment(wh[w].args))
          /\ wh'[w].calls # wh[w].calls =>
               \A p \in DOMAIN store : store[p].email # e => store'[p] = store[p]]_vars


-----------------------------------------------------------------------------
(* C5 to C10: one registration on the write path *)

\* the execution took the write path: no preflight, no availability check
WritePath(r) ==
  /\ r.pc # "idle"
  /\ r.args.method # "options"
  /\ checkAvail(r.args) = <<>>

Failed(calls, op) == \E k \in DOMAIN calls : calls[k].op = op /\ calls[k].outcome # "ok"
Succeeded(calls, op) == \E k \in DOMAIN calls : calls[k].op = op /\ calls[k].outcome = "ok"

\* the paid pages of the request's cohort and date that the store held when
\* the execution started
PaidAtStart(r) ==
  { p \in 1..r.len0 :
      /\ store[p].status = "paid"
      /\ store[p].cohort = Cohort(r.args)
      /\ store[p].start_date = StartDate(r.args) }

\* C5 as stated: a write request whose input violates a validation rule is
\* answered 400 with the itemized errors whatever the state of the store,
\* never 409 or 5xx
C5_AsStated ==
  \A i \in RegIds :
    (reg[i].pc = "done" /\ WritePath(reg[i]) /\ Validate(reg[i].args) # <<>>) =>
      /\ reg[i].resp.statusCode = 400
      /\ reg[i].resp.errors = Validate(reg[i].args)

\* C6 as stated: no store call is issued before validation has passed (a
\* request that fails validation contacts the store zero times), and the calls
\* of a request come in the order gate, lookup, patch or create
C6_AsStated ==
  \A i \in RegIds :
    WritePath(reg[i]) =>
      /\ Validate(reg[i].args) # <<>> => reg[i].calls = <<>>
      /\ \A k \in DOMAIN reg[i].calls :
           /\ reg[i].calls[k].op = "gate" => k = 1
           /\ reg[i].calls[k].op = "lookup" => k = 2

\* C7: for valid input and a gate query that succeeded, the answer is 409 with
\* spotsLeft 0 exactly when the store held Capacity or more paid pages of
\* exactly the request's cohort and date; a 409 request issued the gate query
\* and nothing else, and the store is as it was
C7_FullIffCapReached ==
  \A i \in RegIds :
    (reg[i].pc = "done" /\ ValidWrite(reg[i]) /\ reg[i].gate = "ok") =>
      /\ (reg[i].resp.statusCode = 409) <=> (Cardinality(PaidAtStart(reg[i])) >= Capacity)
      /\ reg[i].resp.statusCode = 409 =>
           /\ reg[i].resp.avail.spotsLeft = 0
           /\ ~reg[i].resp.ok
           /\ Ops(reg[i].calls) = <<"gate">>
           /\ store \in SoloStores

\* exactly Capacity paid pages in place: the next registration is rejected,
\* while the same store still admits a registration for another date
C7_Witness ==
  \E i \in RegIds :
    /\ reg[i].pc = "done" /\ ValidWrite(reg[i]) /\ reg[i].gate = "ok"
    /\ reg[i].resp.statusCode = 409
    /\ Cardinality(PaidAtStart(reg[i])) = Capacity
    /\ Cardinality(PaidPages(store, Spring, <<>>)) = Capacity

\* C8 as stated: when the lookup found a record and the PATCH of it failed,
\* the request ends 5xx and creates no record
C8_AsStated ==
  \A i \in RegIds :
    (reg[i].pc = "done" /\ ValidWrite(reg[i]) /\ Failed(reg[i].calls, "patch")) =>
      /\ reg[i].resp.statusCode \in {500, 502}
      /\ ~Succeeded(reg[i].calls, "create")
      /\ Len(store) = reg[i].len0

\* C9: valid input, the gate's query fails, the later calls succeed: the
\* request is answered 200 with created:true or updated:true
C9_GateFailOpen ==
  \A i \in RegIds :
    (/\ reg[i].pc = "done" /\ ValidWrite(reg[i])
     /\ reg[i].gate = "failed"
     /\ AllOk(Tail(reg[i].calls))) =>
      /\ reg[i].resp.statusCode = 200
      /\ reg[i].resp.ok
      /\ reg[i].resp.created \/ reg[i].resp.updated

\* the gate failed on a full cohort and the registration went through
C9_Witness ==
  \E i \in RegIds :
    /\ reg[i].pc = "done" /\ ValidWrite(reg[i])
    /\ reg[i].gate = "failed"
    /\ AllOk(Tail(reg[i].calls))
    /\ reg[i].resp.created
    /\ Cardinality(PaidAtStart(reg[i])) = Capacity

\* C10: valid input past the gate, the lookup fails, the create succeeds: a
\* new page holding the input's fields with status registered, answered 200
\* created:true, also when the triple already has a page
C10_LookupFailOpen ==
  \A i \in RegIds :
    (/\ reg[i].pc = "done" /\ ValidWrite(reg[i])
     /\ Failed(reg[i].calls, "lookup")
     /\ Succeeded(reg[i].calls, "create")) =>
      /\ reg[i].resp.statusCode = 200
      /\ reg[i].resp.created /\ ~reg[i].resp.updated
      /\ reg[i].resp.pageId = reg[i].len0 + 1
      /\ Len(store) = reg[i].len0 + 1
      /\ store[Len(store)] =
           Page(Name(reg[i].args), Email(reg[i].args), StartDate(reg[i].args),
                Cohort(reg[i].args), Goal(reg[i].args))
      /\ Ops(reg[i].calls) = <<"gate", "lookup", "create">>

\* the lookup failed, the triple had a page, and now it has two
C10_Witness ==
  \E i \in RegIds :
    /\ reg[i].pc = "done" /\ ValidWrite(reg[i])
    /\ Failed(reg[i].calls, "lookup")
    /\ reg[i].resp.created
    /\ TriplePages(StoreAtStart(reg[i]), reg[i].args) # {}
    /\ Cardinality(TriplePages(store, reg[i].args)) = 2
    /\ store[Len(store)].expectation = <<"g", "2">>

-----------------------------------------------------------------------------
(* C11 *)

\* C11: the step in which a registration's PATCH of the record it found
\* succeeds changes the expectation of that record and nothing else: the other
\* fields of the record (status, name, email, cohort, start_date, payment
\* fields) and every other record are as they were and the store holds as
\* many records as before; the gate, the lookup and a failed PATCH of a
\* registration leave the store as it is
C11_UpdateFrame ==
  [][\A i \in RegIds :
       (RegCalled(i) /\ reg[i].pc # "create") =>
         IF reg'[i].resp.updated
         THEN /\ Len(store') = Len(store)
              /\ reg[i].existing \in DOMAIN store
              /\ \A q \in DOMAIN store :
                   store'[q] = IF q = reg[i].existing
                               THEN [store[q] EXCEPT !.expectation = Goal(reg[i].args)]
                               ELSE store[q]
         ELSE store' = store]_vars

\* a registration has patched a page that a payment had marked paid: the goal
\* is the new one and the payment is still on the page
C11_Witness ==
  \E i \in RegIds :
    /\ reg[i].pc = "done"
    /\ reg[i].resp.updated
    /\ Ops(reg[i].calls) = <<"gate", "lookup", "patch">>
    /\ store[reg[i].existing].expectation = <<"g", "2">>
    /\ PaidWith(store[reg[i].existing], ExpectedPayment(WhPost("stripe", Some(PaidE1))))
    /\ Len(store) = reg[i].len0

-----------------------------------------------------------------------------
(* C12 to C15: one delivery to the webhook *)

\* the delivery is a POST whose body parsed to an event
PostedEvent(r) ==
  /\ r.pc # "idle"
  /\ r.args.method = "post"
  /\ parseEvent(r.args) # Absent

\* the event is not for the handler: another type, or a session whose
\* payment_status is not paid
NotForHandler(event) ==
  \/ event.type # Completed
  \/ /\ SessionOf(event) # Absent
     /\ SessionOf(event)[1].payment_status # "paid"

\* C12: a POST whose event has another type than checkout.session.completed,
\* or whose session has another payment_status than paid, is answered 200 with
\* ok:true and ignored:true; it issues no store call and the store is as it was
C12_IgnoredEvents ==
  \A w \in WhIds :
    (PostedEvent(wh[w]) /\ NotForHandler(parseEvent(wh[w].args)[1])) =>
      /\ wh[w].pc = "done"
      /\ wh[w].resp.statusCode = 200
      /\ wh[w].resp.ok
      /\ wh[w].resp.ignored
      /\ wh[w].resp.reason \in {"unhandled_event_type", "not_paid"}
      /\ wh[w].calls = <<>>
      /\ store \in SoloStores

\* an unpaid session of an email that has a registered page was ignored, and
\* so was an event of another type
C12_Witness ==
  \E w \in WhIds :
    /\ wh[w].pc = "done"
    /\ wh[w].args.event \in {Some(Unpaid), Some(OtherType)}
    /\ wh[w].resp.ignored
    /\ findPagesByEmail(store, E1) # {}
    /\ \A p \in findPagesByEmail(store, E1) : store[p].status = "registered"

-----------------------------------------------------------------------------
(* C13 *)

\* the same delivery was made twice, the second after the first had been
\* answered, every store call succeeded and no other request ran
DeliveredTwice ==
  /\ wh[1].pc = "done" /\ wh[2].pc = "done"
  /\ ~wh[1].overlap /\ ~wh[2].overlap
  /\ \A w \in WhIds \ {1, 2} : wh[w].pc = "idle"
  /\ \A i \in RegIds : reg[i].pc = "idle"
  /\ wh[1].args = wh[2].args
  /\ AllOk(wh[1].calls) /\ AllOk(wh[2].calls)

\* the store one delivery of args leaves when it starts from st, finds pages
\* and every call succeeds
AfterOneDelivery(st, args, pages) ==
  [p \in DOMAIN st |-> IF p \in pages THEN MarkPaid(st, args, p)[p] ELSE st[p]]

\* C13: after a paid event has been delivered twice, every call succeeding,
\* the store is the one a single delivery leaves (every field of every record
\* has the value the first delivery gave it) and the second delivery is
\* answered as the first was: 200 with the same updated count
C13_WebhookIdempotent ==
  DeliveredTwice =>
    /\ wh[2].resp = wh[1].resp
    /\ wh[2].resp.statusCode = 200
    /\ wh[2].found = wh[1].found
    /\ wh[2].resp.updated = Cardinality(wh[1].found)
    /\ \E s0 \in InitStores : store = AfterOneDelivery(s0, wh[1].args, wh[1].found)

\* the handler that records the payment has been delivered the same event
\* twice for an email with two pages, and has patched both pages twice
C13_Witness ==
  /\ DeliveredTwice
  /\ wh[1].args.handler = "stripe"
  /\ Cardinality(wh[1].found) = 2
  /\ Ops(wh[2].calls) = <<"query", "patch", "patch">>
  /\ wh[2].resp.updated = 2
  /\ \A p \in wh[2].found :
       PaidWith(store[p], ExpectedPayment(WhPost("stripe", Some(PaidE1))))

-----------------------------------------------------------------------------
(* C14 *)

\* the pages with the delivery's email that the store held when it started
MatchingAtStart(r) ==
  { p \in 1..r.len0 : store[p].email = WhEmail(r.args) }

\* C14: a delivery whose email query succeeded on a store without a record of
\* the event's email is answered 200 with ok:true, updated:0 and note
\* no_matching_email; the query is its only store call and the store is as it
\* was
C14_NoMatchingEmail ==
  \A w \in WhIds :
    (/\ wh[w].pc = "done"
     /\ Succeeded(wh[w].calls, "query")
     /\ MatchingAtStart(wh[w]) = {}) =>
      /\ wh[w].resp.statusCode = 200
      /\ wh[w].resp.ok
      /\ wh[w].resp.updated = 0
      /\ wh[w].resp.note = "no_matching_email"
      /\ ~wh[w].resp.ignored
      /\ Ops(wh[w].calls) = <<"query">>
      /\ store \in SoloStores

\* a paid event of an email without a record, against a store that holds
\* records of other emails, registered ones included
C14_Witness ==
  \E w \in WhIds :
    /\ wh[w].pc = "done"
    /\ wh[w].args.event = Some(PaidE2)
    /\ wh[w].resp.note = "no_matching_email"
    /\ \E p \in DOMAIN store : store[p].status = "registered"

-----------------------------------------------------------------------------
(* C15 *)

\* the delivery was answered with status and made no store call
Rejected(r, status) ==
  /\ r.pc = "done"
  /\ r.resp.statusCode = status
  /\ ~r.resp.ok
  /\ r.calls = <<>>
  /\ store \in SoloStores

\* a paid checkout.session.completed event without an extractable email
PaidWithoutEmail(r) ==
  /\ PostedEvent(r)
  /\ parseEvent(r.args)[1].type = Completed
  /\ SessionOf(parseEvent(r.args)[1]) # Absent
  /\ SessionOf(parseEvent(r.args)[1])[1].payment_status = "paid"
  /\ EmailOf(SessionOf(parseEvent(r.args)[1])[1]) = <<>>

NoEvent(args) ==
  \/ args.body = "bad"
  \/ args.body = "json" /\ args.event = Absent
  \/ args.body = "none" /\ ~CarriesEvent(args)

-----------------------------------------------------------------------------
(* C16 *)

\* two registrations with valid input and the same triple have both been
\* answered, every store call succeeded, nothing else ran, and the store held
\* no record of the triple when either of them started
TwoForNewTriple ==
  /\ reg[1].pc = "done" /\ reg[2].pc = "done"
  /\ \A j \in RegIds \ {1, 2} : reg[j].pc = "idle"
  /\ \A w \in WhIds : wh[w].pc = "idle"
  /\ ValidWrite(reg[1]) /\ ValidWrite(reg[2])
  /\ Email(reg[1].args) = Email(reg[2].args)
  /\ Cohort(reg[1].args) = Cohort(reg[2].args)
  /\ StartDate(reg[1].args) = StartDate(reg[2].args)
  /\ AllOk(reg[1].calls) /\ AllOk(reg[2].calls)
  /\ TriplePages(StoreAtStart(reg[1]), reg[1].args) = {}
  /\ TriplePages(StoreAtStart(reg[2]), reg[2].args) = {}

\* the lookup of the registration was issued and returned not found
NotFound(r) == "lookup" \in { Ops(r.calls)[k] : k \in DOMAIN r.calls } /\ r.existing = 0

\* C16: of two such registrations, each one whose lookup returned not found
\* created a record: the triple has as many records as there are responses
\* with created:true, and when both lookups returned not found it has two
\* records, with different ids, and both responses are 200 created:true
C16_DuplicateRace ==
  TwoForNewTriple =>
    /\ Cardinality(TriplePages(store, reg[1].args)) =
         Cardinality({ j \in {1, 2} : reg[j].resp.created })
    /\ (NotFound(reg[1]) /\ NotFound(reg[2])) =>
         /\ Cardinality(TriplePages(store, reg[1].args)) = 2
         /\ reg[1].resp.statusCode = 200 /\ reg[1].resp.created
         /\ reg[2].resp.statusCode = 200 /\ reg[2].resp.created
         /\ reg[1].resp.pageId # reg[2].resp.pageId
         /\ TriplePages(store, reg[1].args) = {reg[1].resp.pageId, reg[2].resp.pageId}

\* the interleaving of the race: two overlapping registrations of one triple,
\* both lookups returned not found, both created, the triple has two records
C16_Witness ==
  /\ TwoForNewTriple
  /\ reg[1].overlap /\ reg[2].overlap
  /\ NotFound(reg[1]) /\ NotFound(reg[2])
  /\ Ops(reg[1].calls) = <<"gate", "lookup", "create">>
  /\ Ops(reg[2].calls) = <<"gate", "lookup", "create">>
  /\ reg[1].resp.created /\ reg[2].resp.created
  /\ Cardinality(TriplePages(store, reg[1].args)) = 2
  /\ Goal(reg[1].args) # Goal(reg[2].args)

-----------------------------------------------------------------------------
(* C17, C18: the availability-check endpoint *)

\* the request carries check-avail, so it is an availability check
AvailCheck(r) ==
  /\ r.pc # "idle"
  /\ r.args.method # "options"
  /\ checkAvail(r.args) # <<>>

\* the number of pages with cohort c and status paid, of date d when d is
\* given and of any date when it is not
PaidCount(st, c, d) ==
  Cardinality({ p \in DOMAIN st :
                  /\ st[p].cohort = c
                  /\ st[p].status = "paid"
                  /\ d = <<>> \/ st[p].start_date = d })

\* C17: a successful availability check for cohort c and optional date d
\* returns paidCount = the number of paid pages of c (of date d when d is
\* given, of all dates when not), isAvailable = paidCount < 10 and
\* spotsLeft = max(0, 10 - paidCount): with 10 such pages isAvailable is false
\* and spotsLeft is 0, with 3 spotsLeft is 7
C17_AvailabilityCounts ==
  \A i \in RegIds :
    (AvailCheck(reg[i]) /\ Succeeded(reg[i].calls, "gate")) =>
      LET n == PaidCount(store, checkAvail(reg[i].args), checkDate(reg[i].args))
          a == reg[i].resp.avail
      IN /\ reg[i].resp.statusCode = 200 /\ reg[i].resp.ok
         /\ a.paidCount = n
         /\ a.isAvailable <=> (n < 10)
         /\ a.spotsLeft = IF n < 10 THEN 10 - n ELSE 0
         /\ n = 10 => (~a.isAvailable /\ a.spotsLeft = 0)
         /\ n = 3 => a.spotsLeft = 7

\* three paid pages of the cohort and date asked for, next to a paid page of
\* the cohort with another date: seven spots are left
C17_Witness ==
  \E i \in RegIds :
    /\ AvailCheck(reg[i]) /\ Succeeded(reg[i].calls, "gate")
    /\ checkDate(reg[i].args) = D1
    /\ reg[i].resp.avail.paidCount = 3
    /\ reg[i].resp.avail.spotsLeft = 7
    /\ reg[i].resp.avail.isAvailable
    /\ PaidCount(store, Spring, <<>>) = 4

\* C18: an availability check issues the gate's query and nothing else and
\* leaves the store as it is, whether the query succeeds or fails: it never
\* looks up, patches or creates a record; when the query fails the request is
\* answered 500 with ok:false
C18_AvailFailureFatal ==
  \A i \in RegIds :
    AvailCheck(reg[i]) =>
      /\ reg[i].pc \in {"avail", "done"}
      /\ Ops(reg[i].calls) \in {<<>>, <<"gate">>}
      /\ store \in SoloStores
      /\ ~reg[i].resp.created /\ ~reg[i].resp.updated
      /\ reg[i].pc = "done" => reg[i].calls # <<>>
      /\ Failed(reg[i].calls, "gate") =>
           /\ reg[i].pc = "done"
           /\ reg[i].resp.statusCode = 500
           /\ ~reg[i].resp.ok
      /\ Succeeded(reg[i].calls, "gate") =>
           /\ reg[i].pc = "done"
           /\ reg[i].resp.statusCode = 200

\* an availability check that also carried the fields of a valid registration
\* has been answered 500 after its query failed, without a write
C18_Witness ==
  \E i \in RegIds :
    /\ AvailCheck(reg[i])
    /\ Validate(reg[i].args) = <<>>
    /\ reg[i].pc = "done"
    /\ Failed(reg[i].calls, "gate")
    /\ reg[i].resp.statusCode = 500
    /\ store \in SoloStores

-----------------------------------------------------------------------------
(* C19 *)

\* the rules the input of the request violates, by their place in the order
\* name, email, start_date
Violated(args) ==
  { k \in 1..3 :
      \/ k = 1 /\ Name(args) = <<>>
      \/ k = 2 /\ ~validEmail(Email(args))
      \/ k = 3 /\ ~validDate(StartDate(args)) }

\* the place of the rule an error message is about
RuleOf(message) ==
  CASE message = "name is required" -> 1
    [] message = "valid email is required" -> 2
    [] message = "start_date must be ISO yyyy-mm-dd" -> 3
    [] OTHER -> 0

\* C19: the validator's error list has exactly one entry per violated rule,
\* in the order name, email, start_date, whatever the other rules say: it is
\* empty exactly when all three rules hold, a missing name with a bad email
\* gives two entries, and a 400 of the write path carries that list
C19_ValidatorItemizes ==
  \A i \in RegIds :
    WritePath(reg[i]) =>
      LET errors == Validate(reg[i].args)
          violated == Violated(reg[i].args)
      IN /\ { RuleOf(errors[k]) : k \in DOMAIN errors } = violated
         /\ Len(errors) = Cardinality(violated)
         /\ \A j, k \in DOMAIN errors : j < k => RuleOf(errors[j]) < RuleOf(errors[k])
         /\ errors = <<>> <=> violated = {}
         /\ violated = {1, 2} => Len(errors) = 2
         /\ reg[i].resp.statusCode = 400 =>
              (errors # <<>> /\ reg[i].resp.errors = errors)

\* a request without a name and with a bad email, its date well-formed, has
\* been answered 400 with the two entries, in this order
C19_Witness ==
  \E i \in RegIds :
    /\ reg[i].pc = "done"
    /\ parseBody(reg[i].args).name = Absent
    /\ StartDate(reg[i].args) = D1
    /\ reg[i].resp.statusCode = 400
    /\ reg[i].resp.errors = <<"name is required", "valid email is required">>

-----------------------------------------------------------------------------
(* C20 *)

\* the number of calls of op among calls
CountOf(calls, op) == Cardinality({ k \in DOMAIN calls : calls[k].op = op })

\* no call of calls repeats a call that failed
NoRetry(calls) ==
  \A k, m \in DOMAIN calls :
    (k < m /\ calls[k].outcome # "ok") => calls[m].op # calls[k].op

\* each store operation at most once per request, one PATCH per matching
\* record on the webhook, and no retry
CallsAtMostOnce ==
  /\ \A i \in RegIds :
       /\ \A op \in {"gate", "lookup", "patch", "create"} : CountOf(reg[i].calls, op) <= 1
       /\ NoRetry(reg[i].calls)
  /\ \A w \in WhIds :
       /\ CountOf(wh[w].calls, "query") <= 1
       /\ CountOf(wh[w].calls, "patch") <= Cardinality(wh[w].found)
       /\ NoRetry(wh[w].calls)

\* the execution has returned a response
Responded(r) == r.pc = "done" /\ r.resp.statusCode # 0

\* an execution that has returned its response does nothing more
RespondsOnce ==
  /\ \A i \in RegIds : Responded(reg[i]) =>
       (Responded(reg'[i]) /\ reg'[i].resp = reg[i].resp /\ reg'[i].calls = reg[i].calls)
  /\ \A w \in WhIds : Responded(wh[w]) =>
       (Responded(wh'[w]) /\ wh'[w].resp = wh[w].resp /\ wh'[w].calls = wh[w].calls)

\* every request that has arrived has been answered
EveryRequestAnswered ==
  /\ \A i \in RegIds : reg[i].pc # "idle" => Responded(reg[i])
  /\ \A w \in WhIds : wh[w].pc # "idle" => Responded(wh[w])

\* C20 as stated: every request to either handler ends with exactly one
\* response, each store operation is issued at most once per request (one
\* PATCH per matching record on the webhook) and a failed call is not issued
\* again
C20_AsStated ==
  /\ []CallsAtMostOnce
  /\ [][RespondsOnce]_vars
  /\ ~NoneStarted ~> EveryRequestAnswered

-----------------------------------------------------------------------------
(* C21 *)

\* the delivery in slot 1 has ended on a PATCH that failed, and nothing ran
\* beside it
FailedPartWay ==
  /\ wh[1].pc = "done"
  /\ Failed(wh[1].calls, "patch")
  /\ ~wh[1].overlap
  /\ \A i \in RegIds : reg[i].pc = "idle"
  /\ \A w \in WhIds \ {1, 2} : wh[w].pc = "idle"

\* the same event has been delivered again after the failure, and every call
\* of the second delivery succeeded
RetriedWithSuccess ==
  /\ FailedPartWay
  /\ wh[2].pc = "done"
  /\ ~wh[2].overlap
  /\ wh[2].args = wh[1].args
  /\ AllOk(wh[2].calls)

\* C21: a delivery whose PATCH fails part-way is answered 502 and the pages
\* it had patched stay as the PATCH left them: the store is the one the
\* delivery found with as many of the matching pages marked as PATCHes
\* succeeded.  After a later delivery of the same event whose calls all
\* succeed the store is the one a single uninterrupted delivery leaves: every
\* matching page is paid, with the same payment fields
C21_RetryConverges ==
  /\ FailedPartWay =>
       /\ wh[1].resp.statusCode = 502
       /\ ~wh[1].resp.ok
       /\ wh[1].updated = CountOf(wh[1].calls, "patch") - 1
       /\ wh[2].pc = "idle" =>
            \E s0 \in InitStores :
              \E marked \in SUBSET wh[1].found :
                /\ Cardinality(marked) = wh[1].updated
                /\ store = AfterOneDelivery(s0, wh[1].args, marked)
  /\ RetriedWithSuccess =>
       /\ wh[2].resp.statusCode = 200
       /\ wh[2].resp.updated = Cardinality(wh[1].found)
       /\ \A p \in wh[1].found : store[p].status = "paid"
       /\ \E s0 \in InitStores : store = AfterOneDelivery(s0, wh[1].args, wh[1].found)

\* the first delivery marked one of the two pages of the email and failed on
\* the other; the second delivery has marked both, with the event's payment
C21_Witness ==
  /\ RetriedWithSuccess
  /\ wh[1].args.handler = "stripe"
  /\ wh[1].updated = 1
  /\ Cardinality(wh[1].found) = 2
  /\ wh[2].resp.updated = 2
  /\ \A p \in wh[1].found :
       PaidWith(store[p], ExpectedPayment(WhPost("stripe", Some(PaidE1))))

-----------------------------------------------------------------------------
(* C22 *)

\* the delivery is a POST whose body parsed to a checkout.session.completed
\* event
CompletedEvent(r) ==
  /\ PostedEvent(r)
  /\ parseEvent(r.args)[1].type = Completed

\* C22 as stated: every POST of a checkout.session.completed event, with or
\* without data and data.object, ends with a response (200 ignored, 400, 200
\* updated or 502) and never with an uncaught exception
C22_AsStated ==
  \A w \in WhIds :
    CompletedEvent(wh[w]) =>
      /\ wh[w].pc # "crashed"
      /\ wh[w].pc = "done" => wh[w].resp.statusCode \in {200, 400, 502}

-----------------------------------------------------------------------------
(* C23 *)

\* a registration and a delivery have both ended, every call of both
\* succeeded, the registration updated a record that the delivery found, and
\* nothing else ran
UpdateAndPayment ==
  /\ reg[1].pc = "done" /\ wh[1].pc = "done"
  /\ \A i \in RegIds \ {1} : reg[i].pc = "idle"
  /\ \A w \in WhIds \ {1} : wh[w].pc = "idle"
  /\ AllOk(reg[1].calls) /\ AllOk(wh[1].calls)
  /\ reg[1].resp.updated
  /\ reg[1].existing \in wh[1].found
  /\ wh[1].resp.statusCode = 200

\* C23 as stated: whatever the interleaving of the store calls of the two,
\* the record ends with status paid, the payment fields of the event and the
\* expectation of the registration
C23_AsStated ==
  UpdateAndPayment =>
    /\ store[reg[1].existing].expectation = Goal(reg[1].args)
    /\ PaidWith(store[reg[1].existing], ExpectedPayment(wh[1].args))

====
